---- MODULE Spec2Model ----
(***************************************************************************)
(* A model of the parts of bhtom_base that carry logic of their own:       *)
(*   - MARSBroker.fetch_alerts and MARSBroker.process_reduced_data         *)
(*     (src/bhtom_alerts/brokers/mars.py),                                 *)
(*   - export_targets, import_targets and cone_search_filter               *)
(*     (src/bhtom_targets/utils.py) over the Target, TargetExtra and       *)
(*     TargetName tables (src/bhtom_targets/models.py),                    *)
(*   - TargetExportView (src/bhtom_targets/views.py).                      *)
(* Each part has its own specification; the variables of the other parts   *)
(* stay at their initial value.                                            *)
(***************************************************************************)
EXTENDS Integers, Sequences, FiniteSets, TLC

VARIABLES
    \* ---- MARSBroker.fetch_alerts ----
    fpc,        \* position of the call: "request", "await", "return", "done", "raised"
    page,       \* parameters['page']; 0 stands for an absent (falsy) page
    startPage,  \* the page the caller passed in (0: none)
    requested,  \* the page numbers of the GET requests issued, in order
    responses,  \* the broker's answers received, in order
    stack,      \* the `alerts` list of every active fetch_alerts frame, outermost first
    retval,     \* the list a frame has just returned
    \* ---- MARSBroker.process_reduced_data ----
    rpc,        \* position of the call: "start", "fetch_stored", "check_prv", "refetch", "write", "done"
    ralert,     \* the local `alert` (NoAlert: None)
    rdata,      \* the ReducedDatum rows of the target
    routcome,   \* how the call ended: "running", "returned" or the exception raised
    rin,        \* the call's input: was an alert given, the rows before the call, which fetch failed
    \* ---- export_targets and import_targets ----
    cpc,           \* "idle", "exported", "importing", "imported", "raised"
    db,            \* the database exported from: Target, TargetExtra and TargetName rows
    extraDefaults, \* the settings.EXTRA_FIELDS entries that carry a default
    csvfile,       \* the CSV file: its header row and its rows of cells
    exported,      \* the ids of the targets export_targets was given
    idb,           \* the database import_targets writes to
    iindex,        \* the rows import_targets has dealt with
    itargets,      \* import_targets' list `targets` (ids in idb)
    ierrors,       \* import_targets' list `errors` (the line each names)
    ilog,          \* per row dealt with: what it added to idb and whether it was listed as a target
    installed,     \* the relations on Target that apps outside this package define
    \* ---- cone_search_filter ----
    kpc,        \* "call", "done" or "raised"
    kqueryset,  \* the queryset given: targets with an id, ra and dec in degrees
    kcentre,    \* the centre of the cone: ra and dec in degrees
    kradius,    \* the radius of the cone in degrees
    kresult,    \* the ids of the queryset returned
    \* ---- TargetExportView ----
    vpc,        \* "request" or "responded"
    vcan,       \* the ids of the targets the requesting user has view_target on
    vselected,  \* the tokens of the selected_targets parameter, split at the commas
    \* ---- UserUpdateView ----
    upc,        \* "request" or "responded"
    users,      \* the User table: id -> [is_superuser, profile]
    urequest,   \* the request: the requester's id (0: anonymous), the pk of the URL, the method and the form
    uresponse,  \* the response of the view
    \* ---- CommentDeleteView ----
    dpc,        \* "request" or "responded"
    comments,   \* the Comment table: id -> the id of the comment's user
    drequest,   \* the request: the requester (0: anonymous), is_superuser, the pk of the URL and the method
    dresponse,  \* the response of the view
    \* ---- TargetCreateView, TargetUpdateView, Target.save ----
    tpc,        \* "request" or "responded"
    tdb,        \* the Target, TargetExtra and TargetName tables
    trequest,   \* the call: which of the three, the target addressed and the data submitted
    tresponse,  \* how the call ended
    thooks      \* the hooks run so far, in order

fetchVars == <<fpc, page, startPage, requested, responses, stack, retval>>
reducedVars == <<rpc, ralert, rdata, routcome, rin>>
csvVars == <<cpc, db, extraDefaults, csvfile, exported, idb, iindex, itargets, ierrors, ilog, installed>>
coneVars == <<kpc, kqueryset, kcentre, kradius, kresult>>
viewVars == <<vpc, vcan, vselected>>
userVars == <<upc, users, urequest, uresponse>>
commentVars == <<dpc, comments, drequest, dresponse>>
formVars == <<tpc, tdb, trequest, tresponse, thooks>>
vars == <<fetchVars, reducedVars, csvVars, coneVars, viewVars, userVars, commentVars, formVars>>
\* what an action of one part leaves alone: the variables of the other parts
notFetch == <<reducedVars, csvVars, coneVars, viewVars, userVars, commentVars, formVars>>
notReduced == <<fetchVars, csvVars, coneVars, viewVars, userVars, commentVars, formVars>>
notCsv == <<fetchVars, reducedVars, coneVars, viewVars, userVars, commentVars, formVars>>
notCone == <<fetchVars, reducedVars, csvVars, viewVars, userVars, commentVars, formVars>>
notView == <<fetchVars, reducedVars, coneVars, userVars, commentVars, formVars>>
notUser == <<fetchVars, reducedVars, csvVars, coneVars, viewVars, commentVars, formVars>>
notComment == <<fetchVars, reducedVars, csvVars, coneVars, viewVars, userVars, formVars>>
notForm == <<fetchVars, reducedVars, csvVars, coneVars, viewVars, userVars, commentVars>>

(***************************************************************************)
(* Bounds of the model.                                                    *)
(***************************************************************************)
MaxStartPage == 2    \* the caller passes no page (0) or a page up to this
MaxResults == 1      \* a broker page carries at most this many alerts
MaxJd == 2           \* the julian dates of alert candidates are 1..MaxJd
MaxPrv == 1          \* an alert carries at most this many previous candidates
MaxTargets == 2      \* a database to export from holds at most this many targets
MaxRows == 2         \* an uploaded CSV has at most this many rows
MaxConeTargets == 2  \* a queryset given to cone_search_filter holds at most this many targets
MaxRadius == 2       \* the radius of a cone is at most this many degrees
MaxSelected == 2     \* selected_targets carries at most this many tokens
MaxUsers == 2        \* the User table holds at most this many users
MaxComments == 2     \* the Comment table holds at most this many comments
MaxFormTargets == 2  \* the tables behind the target forms hold at most this many targets
MaxAliases == 2      \* a target form submits at most this many non-empty aliases

(***************************************************************************)
(* MARSBroker.fetch_alerts                                                 *)
(***************************************************************************)
\* the page cap of `parameters['page'] < 10`
PageCap == 10

\* the alerts of one broker page: alert i of the k-th answer is <<k, i>>
PageResults(k, n) == [i \in 1..n |-> <<k, i>>]

FetchIdle ==
    /\ fpc = "idle" /\ page = 0 /\ startPage = 0 /\ requested = <<>>
    /\ responses = <<>> /\ stack = <<>> /\ retval = <<>>

FetchInit ==
    /\ fpc = "request"
    /\ startPage \in 0..MaxStartPage
    /\ page = startPage
    /\ requested = <<>>
    /\ responses = <<>>
    /\ stack = <<>>
    /\ retval = <<>>

\* _request_alerts up to requests.get: an absent page becomes 1, then the GET
\* for parameters['page'] is issued
RequestPage(p) == IF p = 0 THEN 1 ELSE p

RequestAlerts ==
    /\ fpc = "request"
    /\ page' = RequestPage(page)
    /\ requested' = Append(requested, page')
    /\ fpc' = "await"
    /\ UNCHANGED <<startPage, responses, stack, retval>>
    /\ UNCHANGED notFetch

\* the recursion test of fetch_alerts
MutHasMore(has_next, p) == has_next /\ p <= PageCap
MutHasMoreIgnoresNext(has_next, p) == p < PageCap
HasMore(has_next, p) == has_next /\ p < PageCap

\* response.raise_for_status() raises: the HTTPError leaves every frame
ResponseError ==
    /\ fpc = "await"
    /\ responses' = Append(responses, [ok |-> FALSE, results |-> <<>>, has_next |-> FALSE])
    /\ stack' = <<>>
    /\ fpc' = "raised"
    /\ UNCHANGED <<page, startPage, requested, retval>>
    /\ UNCHANGED notFetch

\* the broker answers; alerts = response['results']; then either recurse for
\* the next page or return iter(alerts)
ResponseOk ==
    /\ fpc = "await"
    /\ \E n \in 0..MaxResults, has_next \in BOOLEAN :
          LET r == [ok |-> TRUE,
                    results |-> PageResults(Len(responses) + 1, n),
                    has_next |-> has_next]
          IN /\ responses' = Append(responses, r)
             /\ IF HasMore(has_next, page)
                   THEN /\ page' = page + 1
                        /\ stack' = Append(stack, r.results)
                        /\ fpc' = "request"
                        /\ retval' = retval
                   ELSE /\ page' = page
                        /\ stack' = stack
                        /\ retval' = r.results
                        /\ fpc' = "return"
    /\ UNCHANGED <<startPage, requested>>
    /\ UNCHANGED notFetch

\* alerts += self.fetch_alerts(parameters)
MutExtend(alerts, more) == more
Extend(alerts, more) == alerts \o more

\* a frame returns; its caller extends its own list and returns in turn
Return ==
    /\ fpc = "return"
    /\ IF stack = <<>>
          THEN /\ fpc' = "done"
               /\ UNCHANGED <<stack, retval>>
          ELSE /\ retval' = Extend(stack[Len(stack)], retval)
               /\ stack' = SubSeq(stack, 1, Len(stack) - 1)
               /\ fpc' = "return"
    /\ UNCHANGED <<page, startPage, requested, responses>>
    /\ UNCHANGED notFetch

FetchNext == RequestAlerts \/ ResponseError \/ ResponseOk \/ Return

(***************************************************************************)
(* The claims about MARSBroker.fetch_alerts                                *)
(***************************************************************************)
RECURSIVE ConcatResults(_, _)
\* the results of the first k answers, one after the other
ConcatResults(rs, k) == IF k = 0 THEN <<>> ELSE ConcatResults(rs, k - 1) \o rs[k].results

\* C1: a call whose parameters carry no page issues at most 10 page requests
\* and never requests a page number greater than 10, whatever the broker
\* answers.
C1_AtMostTenPages ==
    startPage = 0 =>
        /\ Len(requested) <= 10
        /\ \A i \in 1..Len(requested) : requested[i] <= 10

C1_Witness ==
    /\ startPage = 0 /\ fpc = "done" /\ Len(requested) = 10
    /\ responses[10].ok /\ responses[10].has_next

\* C2: pages are requested in consecutive increasing order, page N+1 only
\* after the answer for page N arrived with has_next true, and nothing is
\* requested after an answer with has_next false.
C2_PagesInOrder ==
    /\ \A i \in 1..(Len(requested) - 1) : requested[i + 1] = requested[i] + 1
    /\ Len(requested) <= Len(responses) + 1
    /\ \A i \in 1..Len(responses) :
          /\ i < Len(requested) => responses[i].ok /\ responses[i].has_next
          /\ ~responses[i].has_next => Len(requested) = i

C2_Witness ==
    /\ fpc = "done" /\ Len(requested) = 3
    /\ responses[2].has_next /\ ~responses[3].has_next

\* C3: the call returns the alerts of every page it requested, in page order,
\* none dropped and none duplicated.
C3_AllAlertsInOrder ==
    fpc = "done" =>
        /\ Len(responses) = Len(requested)
        /\ retval = ConcatResults(responses, Len(responses))

C3_Witness ==
    /\ fpc = "done" /\ Len(requested) >= 3
    /\ \A i \in 1..Len(responses) : Len(responses[i].results) >= 1
    /\ Len(retval) >= 3

(***************************************************************************)
(* MARSBroker.process_reduced_data                                         *)
(***************************************************************************)
NoAlert == [none |-> TRUE]

\* a candidate of an alert: "det" carries jd, magpsf, fid and sigmapsf,
\* "nondet" carries jd, diffmaglim and fid, "other" lacks some of them
Candidates == [kind : {"det", "nondet", "other"}, jd : 1..MaxJd]

RECURSIVE SeqsUpTo(_, _)
SeqsUpTo(S, n) ==
    IF n = 0 THEN {<<>>}
    ELSE LET shorter == SeqsUpTo(S, n - 1)
         IN shorter \cup {Append(q, x) : q \in {r \in shorter : Len(r) = n - 1}, x \in S}

\* a broker alert: its candidate and its prv_candidate, a list or None
Alerts == [candidate : Candidates,
           prv : {[none |-> TRUE]} \cup {[none |-> FALSE, list |-> q] : q \in SeqsUpTo(Candidates, MaxPrv)}]

\* `not alert.get('prv_candidate')`: None and the empty list are falsy
PrvFalsy(a) == a.prv.none \/ a.prv.list = <<>>

\* the ReducedDatum a candidate yields; "other" candidates are skipped
Datum(c) == [jd |-> c.jd,
             data_type |-> IF c.kind = "det" THEN "photometry" ELSE "photometry_nondetection",
             has_error |-> c.kind = "det"]

RECURSIVE DataOf(_)
\* the loop over candidates, then list(set(data))
DataOf(cands) ==
    IF cands = <<>> THEN {}
    ELSE LET c == Head(cands)
         IN (IF c.kind = "other" THEN {} ELSE {Datum(c)}) \cup DataOf(Tail(cands))

\* ReducedDatum.objects.filter(target, data_type='photometry', source_name=MARS)
StoredPhotometry(rows) == {d \in rows : d.data_type = "photometry"}

ReducedIdle ==
    /\ rpc = "idle" /\ ralert = NoAlert /\ rdata = {} /\ routcome = "idle"
    /\ rin = [given |-> FALSE, before |-> {}, failed |-> "none"]

ReducedInit ==
    /\ rpc = "start"
    /\ ralert \in {NoAlert} \cup Alerts
    /\ rdata \in {{}, {Datum([kind |-> "det", jd |-> 1])}}
    /\ routcome = "running"
    /\ rin = [given |-> ralert # NoAlert, before |-> rdata, failed |-> "none"]

\* `if not alert:` and the lookup of the stored datum
ReducedStart ==
    /\ rpc = "start"
    /\ IF ralert # NoAlert
          THEN rpc' = "check_prv" /\ routcome' = routcome
          ELSE IF StoredPhotometry(rdata) = {}
                  THEN rpc' = "done" /\ routcome' = "returned"
                  ELSE rpc' = "fetch_stored" /\ routcome' = routcome
    /\ UNCHANGED <<ralert, rdata, rin>>
    /\ UNCHANGED notReduced

\* what `except HTTPError` makes of a failed fetch of the stored alert
StoredFetchError == "Exception"

\* alert = self.fetch_alert(target_datum.source_location), inside the try
FetchStoredOk ==
    /\ rpc = "fetch_stored"
    /\ ralert' \in Alerts
    /\ rpc' = "check_prv"
    /\ UNCHANGED <<rdata, routcome, rin>>
    /\ UNCHANGED notReduced

FetchStoredFails ==
    /\ rpc = "fetch_stored"
    /\ routcome' = StoredFetchError
    /\ rin' = [rin EXCEPT !.failed = "stored"]
    /\ rpc' = "done"
    /\ UNCHANGED <<ralert, rdata>>
    /\ UNCHANGED notReduced

\* `if not alert.get('prv_candidate')`
CheckPrv ==
    /\ rpc = "check_prv"
    /\ rpc' = IF PrvFalsy(ralert) THEN "refetch" ELSE "write"
    /\ UNCHANGED <<ralert, rdata, routcome, rin>>
    /\ UNCHANGED notReduced

\* alert = self.fetch_alert(alert['lco_id']), outside any try
RefetchOk ==
    /\ rpc = "refetch"
    /\ ralert' \in Alerts
    /\ rpc' = "write"
    /\ UNCHANGED <<rdata, routcome, rin>>
    /\ UNCHANGED notReduced

\* what reaches the caller when the re-fetch raises HTTPError
RefetchError == "HTTPError"

RefetchFails ==
    /\ rpc = "refetch"
    /\ routcome' = RefetchError
    /\ rin' = [rin EXCEPT !.failed = "refetch"]
    /\ rpc' = "done"
    /\ UNCHANGED <<ralert, rdata>>
    /\ UNCHANGED notReduced

\* the candidates list, the data set and bulk_create(ignore_conflicts=True)
\* in one transaction: list + None raises TypeError; a non-detection carries
\* error=None, which the NOT NULL column `error` refuses
WriteReducedData ==
    /\ rpc = "write"
    /\ IF ralert.prv.none
          THEN routcome' = "TypeError" /\ rdata' = rdata
          ELSE LET data == DataOf(<<ralert.candidate>> \o ralert.prv.list)
               IN IF \E d \in data : ~d.has_error
                     THEN routcome' = "IntegrityError" /\ rdata' = rdata
                     ELSE routcome' = "returned" /\ rdata' = rdata \cup data
    /\ rpc' = "done"
    /\ UNCHANGED <<ralert, rin>>
    /\ UNCHANGED notReduced

ReducedNext ==
    \/ ReducedStart \/ FetchStoredOk \/ FetchStoredFails \/ CheckPrv
    \/ RefetchOk \/ RefetchFails \/ WriteReducedData

\* C4: a failed broker fetch never reaches the caller as an HTTPError, for the
\* fetch of the stored alert and for the re-fetch alike, and then no
\* ReducedDatum is written.
C4_FetchFailureNotHTTPError ==
    rin.failed # "none" => routcome # "HTTPError" /\ rdata = rin.before


(***************************************************************************)
(* Strings. A string of the program is a TLA+ string; str.upper,           *)
(* str.strip, str.replace('_NAME', '') and str.endswith('name') are        *)
(* tabulated over the strings the model uses.                              *)
(***************************************************************************)
\* s.upper()
UpperTable ==
    "aliases" :> "ALIASES" @@ "targetextra" :> "TARGETEXTRA" @@ "targetlist" :> "TARGETLIST" @@
    "dr3" :> "DR3" @@ "dr2" :> "DR2" @@ "downloadedtarget" :> "DOWNLOADEDTARGET" @@
    "dataproduct" :> "DATAPRODUCT" @@ "reduceddatum" :> "REDUCEDDATUM" @@ "brokercadence" :> "BROKERCADENCE" @@
    "observationrecord" :> "OBSERVATIONRECORD" @@ "spectroscopydatum" :> "SPECTROSCOPYDATUM" @@ "atlasqueue" :> "ATLASQUEUE" @@
    "id" :> "ID" @@ "name" :> "NAME" @@ "type" :> "TYPE" @@
    "created" :> "CREATED" @@ "modified" :> "MODIFIED" @@ "ra" :> "RA" @@
    "dec" :> "DEC" @@ "epoch" :> "EPOCH" @@ "parallax" :> "PARALLAX" @@
    "pm_ra" :> "PM_RA" @@ "pm_dec" :> "PM_DEC" @@ "galactic_lng" :> "GALACTIC_LNG" @@
    "galactic_lat" :> "GALACTIC_LAT" @@ "distance" :> "DISTANCE" @@ "distance_err" :> "DISTANCE_ERR" @@
    "scheme" :> "SCHEME" @@ "epoch_of_elements" :> "EPOCH_OF_ELEMENTS" @@ "mean_anomaly" :> "MEAN_ANOMALY" @@
    "arg_of_perihelion" :> "ARG_OF_PERIHELION" @@ "eccentricity" :> "ECCENTRICITY" @@ "lng_asc_node" :> "LNG_ASC_NODE" @@
    "inclination" :> "INCLINATION" @@ "mean_daily_motion" :> "MEAN_DAILY_MOTION" @@ "semimajor_axis" :> "SEMIMAJOR_AXIS" @@
    "epoch_of_perihelion" :> "EPOCH_OF_PERIHELION" @@ "ephemeris_period" :> "EPHEMERIS_PERIOD" @@ "ephemeris_period_err" :> "EPHEMERIS_PERIOD_ERR" @@
    "ephemeris_epoch" :> "EPHEMERIS_EPOCH" @@ "ephemeris_epoch_err" :> "EPHEMERIS_EPOCH_ERR" @@ "perihdist" :> "PERIHDIST" @@
    "classification" :> "CLASSIFICATION" @@ "discovery_date" :> "DISCOVERY_DATE" @@ "mjd_last" :> "MJD_LAST" @@
    "mag_last" :> "MAG_LAST" @@ "importance" :> "IMPORTANCE" @@ "cadence" :> "CADENCE" @@
    "priority" :> "PRIORITY" @@ "sun_separation" :> "SUN_SEPARATION" @@ "creation_date" :> "CREATION_DATE" @@
    "constellation" :> "CONSTELLATION" @@ "dont_update_me" :> "DONT_UPDATE_ME" @@ "phot_class" :> "PHOT_CLASS" @@
    "photometry_plot" :> "PHOTOMETRY_PLOT" @@ "photometry_plot_obs" :> "PHOTOMETRY_PLOT_OBS" @@ "photometry_icon_plot" :> "PHOTOMETRY_ICON_PLOT" @@
    "spectroscopy_plot" :> "SPECTROSCOPY_PLOT" @@ "data_plot" :> "DATA_PLOT" @@ "filter_last" :> "FILTER_LAST" @@
    "cadence_priority" :> "CADENCE_PRIORITY" @@ "description" :> "DESCRIPTION" @@ "k1" :> "K1" @@
    "k2" :> "K2" @@
    "GAIA_name" :> "GAIA_NAME" @@ "ZTF_name" :> "ZTF_NAME" @@ "GAIA" :> "GAIA" @@
    "ZTF" :> "ZTF" @@ "Gaia" :> "GAIA" @@ " k1" :> " K1" @@
    "Gaia_name" :> "GAIA_NAME"
Upper(s) == UpperTable[s]

\* s.replace('_NAME', ''), over upper-cased strings
ReplaceNameTable ==
    "ALIASES" :> "ALIASES" @@ "TARGETEXTRA" :> "TARGETEXTRA" @@ "TARGETLIST" :> "TARGETLIST" @@
    "DR3" :> "DR3" @@ "DR2" :> "DR2" @@ "DOWNLOADEDTARGET" :> "DOWNLOADEDTARGET" @@
    "DATAPRODUCT" :> "DATAPRODUCT" @@ "REDUCEDDATUM" :> "REDUCEDDATUM" @@ "BROKERCADENCE" :> "BROKERCADENCE" @@
    "OBSERVATIONRECORD" :> "OBSERVATIONRECORD" @@ "SPECTROSCOPYDATUM" :> "SPECTROSCOPYDATUM" @@ "ATLASQUEUE" :> "ATLASQUEUE" @@
    "ID" :> "ID" @@ "NAME" :> "NAME" @@ "TYPE" :> "TYPE" @@
    "CREATED" :> "CREATED" @@ "MODIFIED" :> "MODIFIED" @@ "RA" :> "RA" @@
    "DEC" :> "DEC" @@ "EPOCH" :> "EPOCH" @@ "PARALLAX" :> "PARALLAX" @@
    "PM_RA" :> "PM_RA" @@ "PM_DEC" :> "PM_DEC" @@ "GALACTIC_LNG" :> "GALACTIC_LNG" @@
    "GALACTIC_LAT" :> "GALACTIC_LAT" @@ "DISTANCE" :> "DISTANCE" @@ "DISTANCE_ERR" :> "DISTANCE_ERR" @@
    "SCHEME" :> "SCHEME" @@ "EPOCH_OF_ELEMENTS" :> "EPOCH_OF_ELEMENTS" @@ "MEAN_ANOMALY" :> "MEAN_ANOMALY" @@
    "ARG_OF_PERIHELION" :> "ARG_OF_PERIHELION" @@ "ECCENTRICITY" :> "ECCENTRICITY" @@ "LNG_ASC_NODE" :> "LNG_ASC_NODE" @@
    "INCLINATION" :> "INCLINATION" @@ "MEAN_DAILY_MOTION" :> "MEAN_DAILY_MOTION" @@ "SEMIMAJOR_AXIS" :> "SEMIMAJOR_AXIS" @@
    "EPOCH_OF_PERIHELION" :> "EPOCH_OF_PERIHELION" @@ "EPHEMERIS_PERIOD" :> "EPHEMERIS_PERIOD" @@ "EPHEMERIS_PERIOD_ERR" :> "EPHEMERIS_PERIOD_ERR" @@
    "EPHEMERIS_EPOCH" :> "EPHEMERIS_EPOCH" @@ "EPHEMERIS_EPOCH_ERR" :> "EPHEMERIS_EPOCH_ERR" @@ "PERIHDIST" :> "PERIHDIST" @@
    "CLASSIFICATION" :> "CLASSIFICATION" @@ "DISCOVERY_DATE" :> "DISCOVERY_DATE" @@ "MJD_LAST" :> "MJD_LAST" @@
    "MAG_LAST" :> "MAG_LAST" @@ "IMPORTANCE" :> "IMPORTANCE" @@ "CADENCE" :> "CADENCE" @@
    "PRIORITY" :> "PRIORITY" @@ "SUN_SEPARATION" :> "SUN_SEPARATION" @@ "CREATION_DATE" :> "CREATION_DATE" @@
    "CONSTELLATION" :> "CONSTELLATION" @@ "DONT_UPDATE_ME" :> "DONT_UPDATE_ME" @@ "PHOT_CLASS" :> "PHOT_CLASS" @@
    "PHOTOMETRY_PLOT" :> "PHOTOMETRY_PLOT" @@ "PHOTOMETRY_PLOT_OBS" :> "PHOTOMETRY_PLOT_OBS" @@ "PHOTOMETRY_ICON_PLOT" :> "PHOTOMETRY_ICON_PLOT" @@
    "SPECTROSCOPY_PLOT" :> "SPECTROSCOPY_PLOT" @@ "DATA_PLOT" :> "DATA_PLOT" @@ "FILTER_LAST" :> "FILTER_LAST" @@
    "CADENCE_PRIORITY" :> "CADENCE_PRIORITY" @@ "DESCRIPTION" :> "DESCRIPTION" @@ "K1" :> "K1" @@
    "K2" :> "K2" @@
    "GAIA_NAME" :> "GAIA" @@ "ZTF_NAME" :> "ZTF" @@ "GAIA" :> "GAIA" @@
    "ZTF" :> "ZTF" @@ " K1" :> " K1"
ReplaceName(s) == ReplaceNameTable[s]

\* s.strip()
StripTable ==
    "aliases" :> "aliases" @@ "targetextra" :> "targetextra" @@ "targetlist" :> "targetlist" @@
    "dr3" :> "dr3" @@ "dr2" :> "dr2" @@ "downloadedtarget" :> "downloadedtarget" @@
    "dataproduct" :> "dataproduct" @@ "reduceddatum" :> "reduceddatum" @@ "brokercadence" :> "brokercadence" @@
    "observationrecord" :> "observationrecord" @@ "spectroscopydatum" :> "spectroscopydatum" @@ "atlasqueue" :> "atlasqueue" @@
    "id" :> "id" @@ "name" :> "name" @@ "type" :> "type" @@
    "created" :> "created" @@ "modified" :> "modified" @@ "ra" :> "ra" @@
    "dec" :> "dec" @@ "epoch" :> "epoch" @@ "parallax" :> "parallax" @@
    "pm_ra" :> "pm_ra" @@ "pm_dec" :> "pm_dec" @@ "galactic_lng" :> "galactic_lng" @@
    "galactic_lat" :> "galactic_lat" @@ "distance" :> "distance" @@ "distance_err" :> "distance_err" @@
    "scheme" :> "scheme" @@ "epoch_of_elements" :> "epoch_of_elements" @@ "mean_anomaly" :> "mean_anomaly" @@
    "arg_of_perihelion" :> "arg_of_perihelion" @@ "eccentricity" :> "eccentricity" @@ "lng_asc_node" :> "lng_asc_node" @@
    "inclination" :> "inclination" @@ "mean_daily_motion" :> "mean_daily_motion" @@ "semimajor_axis" :> "semimajor_axis" @@
    "epoch_of_perihelion" :> "epoch_of_perihelion" @@ "ephemeris_period" :> "ephemeris_period" @@ "ephemeris_period_err" :> "ephemeris_period_err" @@
    "ephemeris_epoch" :> "ephemeris_epoch" @@ "ephemeris_epoch_err" :> "ephemeris_epoch_err" @@ "perihdist" :> "perihdist" @@
    "classification" :> "classification" @@ "discovery_date" :> "discovery_date" @@ "mjd_last" :> "mjd_last" @@
    "mag_last" :> "mag_last" @@ "importance" :> "importance" @@ "cadence" :> "cadence" @@
    "priority" :> "priority" @@ "sun_separation" :> "sun_separation" @@ "creation_date" :> "creation_date" @@
    "constellation" :> "constellation" @@ "dont_update_me" :> "dont_update_me" @@ "phot_class" :> "phot_class" @@
    "photometry_plot" :> "photometry_plot" @@ "photometry_plot_obs" :> "photometry_plot_obs" @@ "photometry_icon_plot" :> "photometry_icon_plot" @@
    "spectroscopy_plot" :> "spectroscopy_plot" @@ "data_plot" :> "data_plot" @@ "filter_last" :> "filter_last" @@
    "cadence_priority" :> "cadence_priority" @@ "description" :> "description" @@ "k1" :> "k1" @@
    "k2" :> "k2" @@
    "GAIA_name" :> "GAIA_name" @@ "ZTF_name" :> "ZTF_name" @@ "GAIA" :> "GAIA" @@
    "ZTF" :> "ZTF" @@ "Gaia" :> "Gaia" @@ " k1" :> "k1" @@
    "Gaia_name" :> "Gaia_name" @@ "v" :> "v" @@ " v " :> "v" @@
    "" :> "" @@ "a" :> "a" @@ "d" :> "d" @@
    "10.0" :> "10.0" @@ "0.0" :> "0.0" @@ "100.0" :> "100.0" @@
    "abc" :> "abc" @@ "T1" :> "T1" @@ "T2" :> "T2" @@
    "T3" :> "T3" @@ "T4" :> "T4" @@ "xxxxxxxxxxxxxxxxxxxxxxxxxxxxxxxxxxxxxxxxxxxxxxxxxxxxxxxxxxxxxxxxxxxxxxxxxxxxxxxxxxxxxxxxxxxxxxxxxxxxx" :> "xxxxxxxxxxxxxxxxxxxxxxxxxxxxxxxxxxxxxxxxxxxxxxxxxxxxxxxxxxxxxxxxxxxxxxxxxxxxxxxxxxxxxxxxxxxxxxxxxxxxx"
Strip(s) == StripTable[s]

\* k.endswith('name')
EndsWithName(k) == k \in {"name", "GAIA_name", "ZTF_name", "Gaia_name"}

\* f'{sn}_name', over upper-cased source names
NameColumnTable ==
    "GAIA" :> "GAIA_name" @@ "ZTF" :> "ZTF_name"
NameColumn(sn) == NameColumnTable[sn]

\* a name longer than TargetName.name's max_length of 100
LongName ==
    "xxxxxxxxxxxxxxxxxxxxxxxxxxxxxxxxxxxxxxxxxxxxxxxxxxxxxxxxxxxxxxxxxxxxxxxxxxxxxxxxxxxxxxxxxxxxxxxxxxxxx"
TooLongForName(s) == s = LongName

\* float(s) and str(x) for the floats of the model
ParseFloatTable == "10.0" :> 10 @@ "0.0" :> 0 @@ "100.0" :> 100
IsFloat(s) == s \in DOMAIN ParseFloatTable
ParseFloat(s) == ParseFloatTable[s]
FloatStr(x) == CHOOSE s \in DOMAIN ParseFloatTable : ParseFloatTable[s] = x

(***************************************************************************)
(* The Target model and its tables                                         *)
(***************************************************************************)
\* the names Target._meta.get_fields() can hold: the reverse relations, then
\* the model's own fields
KnownTargetFields == <<
    "aliases", "targetextra", "targetlist", "dr3", "dr2", "downloadedtarget",
    "dataproduct", "reduceddatum", "brokercadence", "observationrecord", "spectroscopydatum", "atlasqueue",
    "id", "name", "type", "created", "modified", "ra",
    "dec", "epoch", "parallax", "pm_ra", "pm_dec", "galactic_lng",
    "galactic_lat", "distance", "distance_err", "scheme", "epoch_of_elements", "mean_anomaly",
    "arg_of_perihelion", "eccentricity", "lng_asc_node", "inclination", "mean_daily_motion", "semimajor_axis",
    "epoch_of_perihelion", "ephemeris_period", "ephemeris_period_err", "ephemeris_epoch", "ephemeris_epoch_err", "perihdist",
    "classification", "discovery_date", "mjd_last", "mag_last", "importance", "cadence",
    "priority", "sun_separation", "creation_date", "constellation", "dont_update_me", "phot_class",
    "photometry_plot", "photometry_plot_obs", "photometry_icon_plot", "spectroscopy_plot", "data_plot", "filter_last",
    "cadence_priority", "description" >>

\* the relations export_targets names that no model of this package defines:
\* Target has them only where another installed app relates a model to Target
ForeignRelations == {"spectroscopydatum", "atlasqueue"}

\* [field.name for field in Target._meta.get_fields()]
TargetFields ==
    SelectSeq(KnownTargetFields, LAMBDA f : f \notin ForeignRelations \/ f \in installed)

\* the relations other models hold on Target
ReverseRelations == {"aliases", "targetextra", "targetlist", "dr3", "dr2", "downloadedtarget", "dataproduct", "reduceddatum", "brokercadence", "observationrecord", "spectroscopydatum", "atlasqueue"}

\* the FloatField columns of Target
FloatFields == {
    "ra", "dec", "epoch", "parallax", "pm_ra",
    "pm_dec", "galactic_lng", "galactic_lat", "distance", "distance_err",
    "epoch_of_elements", "mean_anomaly", "arg_of_perihelion", "eccentricity", "lng_asc_node",
    "inclination", "mean_daily_motion", "semimajor_axis", "epoch_of_perihelion", "ephemeris_period",
    "ephemeris_period_err", "ephemeris_epoch", "ephemeris_epoch_err", "perihdist", "mjd_last",
    "mag_last", "importance", "cadence", "priority", "sun_separation",
    "cadence_priority" }

\* auto_now and auto_now_add fields are not editable: model_to_dict skips them
NonEditableFields == {"created", "modified"}

\* the keys of model_to_dict(target, fields=target_fields)
EditableFields ==
    {TargetFields[i] : i \in 1..Len(TargetFields)} \ (ReverseRelations \cup NonEditableFields)

\* the cell the csv writer prints for a field the model keeps at its default
DefaultCellTable ==
    "type" :> "" @@ "dec" :> "" @@ "epoch" :> "" @@
    "parallax" :> "" @@ "pm_ra" :> "" @@ "pm_dec" :> "" @@
    "galactic_lng" :> "" @@ "galactic_lat" :> "" @@ "distance" :> "" @@
    "distance_err" :> "" @@ "scheme" :> "" @@ "epoch_of_elements" :> "" @@
    "mean_anomaly" :> "" @@ "arg_of_perihelion" :> "" @@ "eccentricity" :> "" @@
    "lng_asc_node" :> "" @@ "inclination" :> "" @@ "mean_daily_motion" :> "" @@
    "semimajor_axis" :> "" @@ "epoch_of_perihelion" :> "" @@ "ephemeris_period" :> "" @@
    "ephemeris_period_err" :> "" @@ "ephemeris_epoch" :> "" @@ "ephemeris_epoch_err" :> "" @@
    "perihdist" :> "" @@ "classification" :> "" @@ "discovery_date" :> "" @@
    "mjd_last" :> "0.0" @@ "mag_last" :> "100.0" @@ "importance" :> "0.0" @@
    "cadence" :> "0.0" @@ "priority" :> "0.0" @@ "sun_separation" :> "" @@
    "creation_date" :> "" @@ "constellation" :> "" @@ "dont_update_me" :> "" @@
    "phot_class" :> "" @@ "photometry_plot" :> "" @@ "photometry_plot_obs" :> "" @@
    "photometry_icon_plot" :> "" @@ "spectroscopy_plot" :> "" @@ "data_plot" :> "" @@
    "filter_last" :> "" @@ "cadence_priority" :> "0.0" @@ "description" :> ""

\* settings.SOURCE_CHOICES: the keys of the alias sources
SourceChoices == {"Gaia", "ZTF"}

\* the keys removed from the header row
HeaderExclusions == <<
    "id", "brokercadence", "dr3", "dr2", "targetlist", "dataproduct",
    "observationrecord", "reduceddatum", "aliases", "targetextra", "photometry_plot", "photometry_plot_obs",
    "photometry_icon_plot", "spectroscopy_plot", "data_plot", "modified", "created", "spectroscopydatum",
    "atlasqueue" >>

\* the keys removed from every row's dict
RowExclusions == <<
    "id", "brokercadence", "dr3", "dr2", "targetlist", "dataproduct",
    "observationrecord", "reduceddatum", "aliases", "targetextra", "photometry_plot", "photometry_plot_obs",
    "photometry_icon_plot", "spectroscopy_plot", "data_plot", "modified", "created" >>

\* a database without rows
EmptyDb == [targets |-> {}, extras |-> {}, names |-> {}]

TargetIds(d) == {t.id : t \in d.targets}
TargetById(d, id) == CHOOSE t \in d.targets : t.id = id
ExtrasOfTarget(d, id) == {e \in d.extras : e.target = id}
NamesOfTarget(d, id) == {n \in d.names : n.target = id}

\* the orders in which a set can be enumerated
Orders(S) == {q \in [1..Cardinality(S) -> S] : \A i, j \in DOMAIN q : q[i] = q[j] => i = j}

RECURSIVE Ascending(_)
\* a queryset of targets, by id
Ascending(ids) ==
    IF ids = {} THEN <<>>
    ELSE LET m == CHOOSE x \in ids : \A y \in ids : x <= y
         IN <<m>> \o Ascending(ids \ {m})

Elements(s) == {s[i] : i \in 1..Len(s)}

(***************************************************************************)
(* export_targets                                                          *)
(***************************************************************************)
\* list.remove(key) inside try/except: the first occurrence goes, if any
RemoveFirst(s, key) ==
    IF key \in Elements(s)
       THEN LET i == CHOOSE i \in 1..Len(s) : s[i] = key /\ \A j \in 1..(i - 1) : s[j] # key
            IN SubSeq(s, 1, i - 1) \o SubSeq(s, i + 1, Len(s))
       ELSE s

RECURSIVE RemoveEach(_, _)
RemoveEach(s, keys) ==
    IF keys = <<>> THEN s ELSE RemoveEach(RemoveFirst(s, Head(keys)), Tail(keys))

\* {field.key for field in TargetExtra.objects.filter(target__in=qs_pk)}
ExportedExtraKeys(d, ids) == {e.key : e \in {x \in d.extras : x.target \in ids}}

\* set(TargetName.objects.filter(target__in=qs_pk).values_list('source_name'))
ExportedSources(d, ids) == {n.source_name : n \in {x \in d.names : x.target \in ids}}

\* the column of an alias source
AliasColumn(sn) == NameColumn(Upper(sn))

\* all_fields: the target fields, the extra keys and the alias columns in
\* the order the two sets happen to be enumerated in, less the exclusions
ExportHeader(keyOrder, sourceOrder) ==
    RemoveEach(TargetFields \o keyOrder \o [i \in 1..Len(sourceOrder) |-> AliasColumn(sourceOrder[i])],
               HeaderExclusions)

\* the cell the csv writer prints for a field of a target
FieldCell(t, f) ==
    CASE f = "id" -> ToString(t.id)
      [] f = "name" -> t.name
      [] f = "ra" -> (IF t.ra = <<>> THEN "" ELSE FloatStr(t.ra[1]))
      [] OTHER -> DefaultCellTable[f]

Overlay(f, g) == [k \in DOMAIN f \cup DOMAIN g |-> IF k \in DOMAIN g THEN g[k] ELSE f[k]]

\* model_to_dict(target_data, fields=target_fields)
ModelToDict(t) == [f \in EditableFields |-> FieldCell(t, f)]

\* target_dict[e.key] = e.value for the target's extras
ExtrasDict(d, id) ==
    [k \in {e.key : e \in ExtrasOfTarget(d, id)} |->
        (CHOOSE e \in ExtrasOfTarget(d, id) : e.key = k).value]

\* target_dict[f'{name.source_name.upper()}_name'] = name.name for its aliases
NamesDict(d, id) ==
    [c \in {AliasColumn(n.source_name) : n \in NamesOfTarget(d, id)} |->
        (CHOOSE n \in NamesOfTarget(d, id) : AliasColumn(n.source_name) = c).name]

\* the dict of one target, after `del target_dict[key]` for the row exclusions
RowDict(d, id) ==
    LET full == Overlay(Overlay(ModelToDict(TargetById(d, id)), ExtrasDict(d, id)), NamesDict(d, id))
    IN [k \in DOMAIN full \ Elements(RowExclusions) |-> full[k]]

\* writer.writerow: a cell per header column, '' where the dict has no value
RowCells(header, dict) ==
    [i \in 1..Len(header) |-> IF header[i] \in DOMAIN dict THEN dict[header[i]] ELSE ""]

\* export_targets(qs): DictWriter raises ValueError on a dict key that is no
\* column of the header
ExportTargets(d, ids, keyOrder, sourceOrder) ==
    LET header == ExportHeader(keyOrder, sourceOrder)
        qs == Ascending(ids)
    IN IF \E id \in ids : ~(DOMAIN RowDict(d, id) \subseteq Elements(header))
          THEN [raised |-> TRUE, header |-> header, rows |-> <<>>]
          ELSE [raised |-> FALSE, header |-> header,
                rows |-> [i \in 1..Len(qs) |-> RowCells(header, RowDict(d, qs[i]))]]

(***************************************************************************)
(* The ORM writes import_targets makes                                     *)
(***************************************************************************)
\* the id the database gives the next Target row
NextId(d) == IF d.targets = {} THEN 1
             ELSE (CHOOSE m \in TargetIds(d) : \A x \in TargetIds(d) : x <= m) + 1

\* Target.save for a new target: the row, then a TargetExtra for every
\* settings.EXTRA_FIELDS entry with a default, in one transaction
SaveNewTarget(d, t, defaults) ==
    [d EXCEPT !.targets = @ \cup {t},
              !.extras = @ \cup {[target |-> t.id, key |-> x.name, value |-> x.default] : x \in defaults}]

\* Target.objects.create(**target_fields) raises: the name is taken
\* (unique=True), a float field gets a cell float() refuses, or a keyword
\* names a reverse relation
CreateTargetRaises(d, fields) ==
    \/ \E t \in d.targets : t.name = (IF "name" \in DOMAIN fields THEN fields["name"] ELSE "")
    \/ \E f \in DOMAIN fields \cap FloatFields : ~IsFloat(fields[f])
    \/ DOMAIN fields \cap ReverseRelations # {}

\* the Target row the keywords make; a field without keyword keeps its default
NewTarget(d, fields) ==
    [id |-> NextId(d),
     name |-> IF "name" \in DOMAIN fields THEN fields["name"] ELSE "",
     ra |-> IF "ra" \in DOMAIN fields THEN <<ParseFloat(fields["ra"])>> ELSE <<>>]

RECURSIVE CreateExtras(_, _, _)
\* TargetExtra.objects.create for each pair in turn; unique_together
\* (target, key) makes a repeated key raise, and what was created stays
CreateExtras(d, id, pairs) ==
    IF pairs = <<>> THEN [db |-> d, ok |-> TRUE]
    ELSE LET p == Head(pairs)
         IN IF \E e \in ExtrasOfTarget(d, id) : e.key = p[1]
               THEN [db |-> d, ok |-> FALSE]
               ELSE CreateExtras([d EXCEPT !.extras = @ \cup {[target |-> id, key |-> p[1], value |-> p[2]]}],
                                 id, Tail(pairs))

RECURSIVE CreateNames(_, _, _)
\* TargetName.objects.create for each alias in turn; unique_together
\* (source_name, target) and max_length=100 make it raise
CreateNames(d, id, pairs) ==
    IF pairs = <<>> THEN [db |-> d, ok |-> TRUE]
    ELSE LET p == Head(pairs)
             source_name == ReplaceName(Upper(p[1]))
         IN IF (\E n \in NamesOfTarget(d, id) : n.source_name = source_name) \/ TooLongForName(p[2])
               THEN [db |-> d, ok |-> FALSE]
               ELSE CreateNames([d EXCEPT !.names = @ \cup {[target |-> id, source_name |-> source_name, name |-> p[2]]}],
                                id, Tail(pairs))

(***************************************************************************)
(* import_targets                                                          *)
(***************************************************************************)
\* 'Error on line {0}: {1}'.format(index + 2, str(e))
ErrorLine(index) == index + 2

NoCsv == [raised |-> TRUE, header |-> <<>>, rows |-> <<>>]

\* csv.DictReader yields no row for a blank line
DataRows(csv) == SelectSeq(csv.rows, LAMBDA r : r # <<>>)

\* a row with fewer or more cells than the header: DictReader pairs a column
\* with None, or None with the surplus cells, and line 88 calls .strip() on it
Ragged(header, cells) == Len(cells) # Len(header)

\* the distinct elements of a sequence, each at its first position
Dedup(s) ==
    LET firsts == SelectSeq([i \in 1..Len(s) |-> i], LAMBDA i : \A j \in 1..(i - 1) : s[j] # s[i])
    IN [n \in 1..Len(firsts) |-> s[firsts[n]]]

LastIndex(s, P(_)) == CHOOSE i \in 1..Len(s) : P(s[i]) /\ \A j \in (i + 1)..Len(s) : ~P(s[j])

\* the dict DictReader makes of a row: a repeated column keeps its last cell
ReaderDict(header, cells) ==
    [k \in Elements(header) |-> cells[LastIndex(header, LAMBDA h : h = k)]]

\* line 88: keys and values stripped, empty cells of target fields dropped;
\* the keys in the order they enter the dict
CleanKeys(header, cells) ==
    LET rd == ReaderDict(header, cells)
        kept == SelectSeq(Dedup(header),
                          LAMBDA k : ~(Strip(k) \in Elements(TargetFields) /\ Strip(rd[k]) = ""))
    IN [keys |-> Dedup([i \in 1..Len(kept) |-> Strip(kept[i])]),
        value |-> [sk \in {Strip(kept[i]) : i \in 1..Len(kept)} |->
                     Strip(rd[kept[LastIndex(kept, LAMBDA k : Strip(k) = sk)]])]]

\* [sc[0].upper() for sc in settings.SOURCE_CHOICES]
UppercaseSourceNames == {Upper(sc) : sc \in SourceChoices}

\* k.upper().replace('_NAME', '')
KSourceName(k) == ReplaceName(Upper(k))

\* the three branches of the loop over the row's keys
IsAliasKey(k) == k # "name" /\ EndsWithName(k) /\ KSourceName(k) \in UppercaseSourceNames
IsExtraKey(k) == ~IsAliasKey(k) /\ k \notin Elements(TargetFields)
IsFieldKey(k) == ~IsAliasKey(k) /\ k \in Elements(TargetFields)

\* target_names: one entry per source, at the place of its first column and
\* with the value of its last
TargetNamesOf(row) ==
    LET aliasKeys == SelectSeq(row.keys, IsAliasKey)
        sourceSeq == Dedup([i \in 1..Len(aliasKeys) |-> KSourceName(aliasKeys[i])])
    IN [i \in 1..Len(sourceSeq) |->
          <<sourceSeq[i],
            row.value[aliasKeys[LastIndex(aliasKeys, LAMBDA k : KSourceName(k) = sourceSeq[i])]]>>]

\* target_extra_fields
TargetExtraFieldsOf(row) ==
    LET extraKeys == SelectSeq(row.keys, IsExtraKey)
    IN [i \in 1..Len(extraKeys) |-> <<extraKeys[i], row.value[extraKeys[i]]>>]

\* target_fields
TargetFieldsOf(row) ==
    [k \in {x \in Elements(row.keys) : IsFieldKey(x)} |-> row.value[k]]

\* the try block of one row: the Target, then its extras, then its aliases,
\* each write committed as it is made; run_hook is taken to succeed
ImportRowWrites(d, row, defaults) ==
    LET fields == TargetFieldsOf(row)
    IN IF CreateTargetRaises(d, fields)
          THEN [db |-> d, ok |-> FALSE, id |-> 0]
          ELSE LET t == NewTarget(d, fields)
                   withExtras == CreateExtras(SaveNewTarget(d, t, defaults), t.id, TargetExtraFieldsOf(row))
               IN IF ~withExtras.ok
                     THEN [db |-> withExtras.db, ok |-> FALSE, id |-> t.id]
                     ELSE LET withNames == CreateNames(withExtras.db, t.id, TargetNamesOf(row))
                          IN [db |-> withNames.db, ok |-> withNames.ok, id |-> t.id]

(***************************************************************************)
(* Exporting a database and importing a CSV, step by step                  *)
(***************************************************************************)
TargetNameOf(i) == <<"T1", "T2", "T3", "T4">>[i]

\* the Target rows 1..n of a source database
SourceTargets(n) ==
    {[id |-> i, name |-> TargetNameOf(i), ra |-> IF i % 2 = 1 THEN <<>> ELSE <<10>>] : i \in 1..n}

\* the databases with TargetExtra rows over the given keys and TargetName
\* rows over the given sources: up to max targets, their extras unique in
\* (target, key) and their aliases unique in (source_name, target)
DbsOver(keys, sources, max) ==
    UNION {
        {[targets |-> SourceTargets(n), extras |-> E, names |-> N] :
            E \in SUBSET [target : 1..n, key : keys, value : {"v"}],
            N \in SUBSET [target : 1..n, source_name : sources, name : {"a"}]}
        : n \in 0..max}

\* the databases to export from: extras with a plain key, with a key that
\* is also the name of a Target field and with a key that export_targets
\* removes by name; aliases of the sources of settings.SOURCE_CHOICES
ExportDbs(max) == DbsOver({"k1", "created", "atlasqueue"}, SourceChoices, max)

\* the databases of the round trip: plain extra keys and values, and aliases
\* whose source names are upper case, as import_targets itself stores them
RoundTripDbs(max) == DbsOver({"k1", "k2"}, {Upper(sc) : sc \in SourceChoices}, max)

\* settings.EXTRA_FIELDS, as far as Target.save reads it: the entries with a
\* default
ExtraFieldSettings == {{}, {[name |-> "k1", default |-> "d"]}}

\* the rows of an uploaded CSV with the header `name,ra, k1,Gaia_name`; a
\* short row and a blank line beside them
UploadHeader == <<"name", "ra", " k1", "Gaia_name">>
UploadRows ==
    {<<n, r, "v", a>> : n \in {"T1", "T2"}, r \in {"", "abc"}, a \in {"a", LongName}}
        \cup {<<"T1">>, <<>>}
UploadedCsvs ==
    {[raised |-> FALSE, header |-> UploadHeader, rows |-> q] : q \in SeqsUpTo(UploadRows, MaxRows)}

CsvIdle ==
    /\ cpc = "idle" /\ db = EmptyDb /\ extraDefaults = {} /\ csvfile = NoCsv
    /\ installed = {}
    /\ exported = {} /\ idb = EmptyDb /\ iindex = 0 /\ itargets = <<>>
    /\ ierrors = <<>> /\ ilog = <<>>

\* a database to export from, under settings whose EXTRA_FIELDS carry no
\* default and with the apps of this package alone or with the apps that
\* define the other relations as well; nothing exported or imported yet
CsvInitOver(dbs, apps) ==
    /\ cpc = "idle"
    /\ installed \in apps
    /\ db \in dbs
    /\ extraDefaults = {}
    /\ csvfile = NoCsv
    /\ exported = {}
    /\ idb = EmptyDb /\ iindex = 0 /\ itargets = <<>> /\ ierrors = <<>> /\ ilog = <<>>

\* a CSV file a user uploads to an empty database
UploadInit ==
    /\ cpc = "exported"
    /\ installed = {}
    /\ db = EmptyDb
    /\ extraDefaults \in ExtraFieldSettings
    /\ csvfile \in UploadedCsvs
    /\ exported = {}
    /\ idb = EmptyDb /\ iindex = 0 /\ itargets = <<>> /\ ierrors = <<>> /\ ilog = <<>>

\* export_targets(qs) for a queryset of targets of db
ExportCsv ==
    /\ cpc = "idle"
    /\ \E ids \in SUBSET TargetIds(db) :
       \E keyOrder \in Orders(ExportedExtraKeys(db, ids)), sourceOrder \in Orders(ExportedSources(db, ids)) :
          /\ csvfile' = ExportTargets(db, ids, keyOrder, sourceOrder)
          /\ exported' = ids
    /\ cpc' = "exported"
    /\ UNCHANGED <<db, extraDefaults, installed, idb, iindex, itargets, ierrors, ilog>>
    /\ UNCHANGED notCsv

\* import_targets(csv_stream) up to the loop
StartImport ==
    /\ cpc = "exported"
    /\ ~csvfile.raised
    /\ cpc' = "importing"
    /\ UNCHANGED <<db, extraDefaults, installed, csvfile, exported, idb, iindex, itargets, ierrors, ilog>>
    /\ UNCHANGED notCsv

\* one turn of the loop over the rows
ImportRow ==
    /\ cpc = "importing"
    /\ iindex < Len(DataRows(csvfile))
    /\ LET cells == DataRows(csvfile)[iindex + 1]
       IN IF Ragged(csvfile.header, cells)
             THEN /\ cpc' = "raised"
                  /\ UNCHANGED <<idb, iindex, itargets, ierrors, ilog>>
             ELSE \E row \in {CleanKeys(csvfile.header, cells)} :
                  \E r \in {ImportRowWrites(idb, row, extraDefaults)} :
                     /\ idb' = r.db
                     /\ itargets' = IF r.ok THEN Append(itargets, r.id) ELSE itargets
                     /\ ierrors' = IF r.ok THEN ierrors ELSE Append(ierrors, ErrorLine(iindex))
                     /\ ilog' = Append(ilog, [ok |-> r.ok,
                                              targets |-> r.db.targets \ idb.targets,
                                              extras |-> r.db.extras \ idb.extras,
                                              names |-> r.db.names \ idb.names,
                                              wantExtras |-> Len(TargetExtraFieldsOf(row)),
                                              wantNames |-> Len(TargetNamesOf(row))])
                     /\ iindex' = iindex + 1
                     /\ cpc' = cpc
    /\ UNCHANGED <<db, extraDefaults, installed, csvfile, exported>>
    /\ UNCHANGED notCsv

\* the loop ends: return {'targets': targets, 'errors': errors}
ImportReturn ==
    /\ cpc = "importing"
    /\ iindex = Len(DataRows(csvfile))
    /\ cpc' = "imported"
    /\ UNCHANGED <<db, extraDefaults, installed, csvfile, exported, idb, iindex, itargets, ierrors, ilog>>
    /\ UNCHANGED notCsv

(***************************************************************************)
(* The claims about export_targets and import_targets                      *)
(***************************************************************************)
ExtraPairs(d, id) == {<<e.key, e.value>> : e \in ExtrasOfTarget(d, id)}
AliasPairs(d, id) == {<<n.source_name, n.name>> : n \in NamesOfTarget(d, id)}

\* C5: importing the CSV exported for a set of targets into a database that
\* holds none of them reports no errors and recreates every exported target
\* with the same name, the same extra key/value pairs and the same
\* (source name, alias name) pairs.
C5_RoundTrip ==
    cpc = "imported" =>
        /\ ierrors = <<>>
        /\ \A id \in exported :
              \E t \in idb.targets :
                 /\ t.name = TargetById(db, id).name
                 /\ ExtraPairs(idb, t.id) = ExtraPairs(db, id)
                 /\ AliasPairs(idb, t.id) = AliasPairs(db, id)

\* the header row the claim describes: the target fields outside the
\* exclusion list, then the extra keys of the exported targets, then an
\* upper-cased <SOURCE>_name column per alias source of the exported targets
C6_KeptFields == SelectSeq(TargetFields, LAMBDA f : f \notin Elements(HeaderExclusions))
C6_Keys == {e.key : e \in {x \in db.extras : x.target \in exported}}
C6_Sources == {n.source_name : n \in {x \in db.names : x.target \in exported}}

\* C6: the header row is exactly the Target fields not in the exclusion list,
\* then the distinct TargetExtra keys of the exported targets, then one
\* <SOURCE>_name column per distinct alias source of the exported targets;
\* targets outside the exported set contribute no column.
C6_HeaderRow ==
    cpc = "exported" =>
        LET h == csvfile.header
            nf == Len(C6_KeptFields)
            nk == Cardinality(C6_Keys)
            ns == Cardinality(C6_Sources)
        IN /\ Len(h) = nf + nk + ns
           /\ SubSeq(h, 1, nf) = C6_KeptFields
           /\ {h[i] : i \in (nf + 1)..(nf + nk)} = C6_Keys
           /\ \E order \in Orders(C6_Sources) :
                 SubSeq(h, nf + nk + 1, nf + nk + ns) = [i \in 1..ns |-> NameColumn(Upper(order[i]))]

\* C7: every row is one transaction: either its Target, all its extras and
\* all its aliases are persisted and it is listed in 'targets', or it is
\* listed in 'errors' and nothing of it is persisted.
C7_RowIsTransaction ==
    \A i \in 1..Len(ilog) :
        \/ /\ ilog[i].ok
           /\ Cardinality(ilog[i].targets) = 1
           /\ Cardinality(ilog[i].extras) >= ilog[i].wantExtras
           /\ Cardinality(ilog[i].names) = ilog[i].wantNames
        \/ /\ ~ilog[i].ok
           /\ ilog[i].targets = {} /\ ilog[i].extras = {} /\ ilog[i].names = {}

\* C8: every data row is dealt with whatever happened to the rows before:
\* 'targets' and 'errors' together have one entry per data row, and the
\* error of the row at index i names line i + 2.
C8_EveryRowReported ==
    /\ cpc # "raised"
    /\ cpc = "imported" =>
          /\ Len(itargets) + Len(ierrors) = Len(DataRows(csvfile))
          /\ Len(ilog) = Len(DataRows(csvfile))
          /\ ierrors = SelectSeq([i \in 1..Len(ilog) |-> i + 1], LAMBDA l : ~ilog[l - 1].ok)

(***************************************************************************)
(* cone_search_filter. The coordinates are whole degrees on the equator    *)
(* (dec = 0) and at the poles (dec = 90, -90), where the angular           *)
(* separation SkyCoord.separation computes is a whole number of degrees.   *)
(***************************************************************************)
Abs(x) == IF x < 0 THEN -x ELSE x

\* the positions of the model: ra in [0, 360), dec in [-90, 90]
ConePositions ==
    [ra : {0, 1, 3, 359}, dec : {0}] \cup [ra : {0, 180}, dec : {90}]

\* center_coord.separation(target_coord) in degrees, on the great circle
\* through the two points
Separation(p, q) ==
    IF p.dec = 0 /\ q.dec = 0
       THEN LET d == Abs(p.ra - q.ra) % 360 IN IF d <= 180 THEN d ELSE 360 - d
       ELSE IF p.dec = q.dec THEN 0
       ELSE IF p.dec = 0 \/ q.dec = 0 THEN 90
       ELSE 180

\* the square box of the first queryset.filter: twice the radius either way,
\* on the raw ra and dec values
InBox(t, centre, radius) ==
    /\ t.ra >= centre.ra - 2 * radius /\ t.ra <= centre.ra + 2 * radius
    /\ t.dec >= centre.dec - 2 * radius /\ t.dec <= centre.dec + 2 * radius

\* cone_search_filter(queryset, ra, dec, radius): the ids of the result
ConeSearchFilter(queryset, centre, radius) ==
    LET boxed == {t \in queryset : InBox(t, centre, radius)}
        matching_ids == {t.id : t \in {x \in boxed : Separation(centre, x) <= radius}}
    IN {t.id : t \in {x \in boxed : x.id \in matching_ids}}

ConeIdle ==
    /\ kpc = "idle" /\ kqueryset = {} /\ kcentre = [ra |-> 0, dec |-> 0]
    /\ kradius = 0 /\ kresult = {}

ConeInit ==
    /\ kpc = "call"
    /\ \E n \in 0..MaxConeTargets :
          kqueryset \in {{[id |-> i, ra |-> f[i].ra, dec |-> f[i].dec] : i \in 1..n} :
                            f \in [1..n -> ConePositions]}
    /\ kcentre \in ConePositions
    /\ kradius \in 0..MaxRadius
    /\ kresult = {}

ConeSearch ==
    /\ kpc = "call"
    /\ kresult' = ConeSearchFilter(kqueryset, kcentre, kradius)
    /\ kpc' = "done"
    /\ UNCHANGED <<kqueryset, kcentre, kradius>>
    /\ UNCHANGED notCone

\* C9: for every centre and radius the result holds every target of the
\* queryset whose angular separation from the centre is at most the radius.
C9_ConeComplete ==
    kpc = "done" =>
        \A t \in kqueryset : Separation(kcentre, t) <= kradius => t.id \in kresult

(***************************************************************************)
(* TargetExportView                                                        *)
(***************************************************************************)
\* int(target_id), over the tokens of the model that int accepts
DigitTokens == "1" :> 1 @@ "2" :> 2 @@ "3" :> 3 @@ "4" :> 4 @@ "01" :> 1
\* the one-character token U+00B2 SUPERSCRIPT TWO: str.isdigit accepts it
\* and int raises ValueError on it
SuperscriptTwo == "U+00B2"
\* target_id.isdigit()
IsDigit(tok) == tok \in DOMAIN DigitTokens \cup {SuperscriptTwo}
\* int(target_id) raises ValueError
IntRaises(tok) == tok \notin DOMAIN DigitTokens
SelectedTokens ==
    {ToString(i) : i \in 1..(MaxTargets + 1)} \cup {"01", "x", "", SuperscriptTwo}

\* the databases behind the view
ViewDbs(max) == DbsOver({"k1"}, {"ZTF"}, max)

\* PermissionListMixin.get_queryset: the targets the user may view; it
\* becomes the object_list of the context
PermittedQueryset(d, can) == {t \in d.targets : t.id \in can}

\* [int(target_id) for target_id in target_ids if target_id.isdigit()]
SelectedIds(tokens) == {DigitTokens[tokens[i]] : i \in {j \in 1..Len(tokens) : IsDigit(tokens[j])}}

\* Target.objects.filter(id__in=target_ids): the ids of the targets exported
ExportQueryset(d, can, tokens) == {t.id : t \in {x \in d.targets : x.id \in SelectedIds(tokens)}}

ViewIdle == vpc = "idle" /\ vcan = {} /\ vselected = <<>>

\* a GET of the export view: a database, the requesting user's permissions
\* and the selected_targets parameter
ViewInit ==
    /\ vpc = "request"
    /\ CsvInitOver(ViewDbs(MaxTargets), {{}})
    /\ vcan \in SUBSET TargetIds(db)
    /\ vselected \in SeqsUpTo(SelectedTokens, MaxSelected) \ {<<>>}

\* the list comprehension of render_to_response raises
SelectedIdsRaises(tokens) ==
    \E i \in 1..Len(tokens) : IsDigit(tokens[i]) /\ IntRaises(tokens[i])

\* TargetExportView.render_to_response, when int() refuses a token: the
\* ValueError leaves the view and no CSV is returned
RenderRaises ==
    /\ vpc = "request"
    /\ SelectedIdsRaises(vselected)
    /\ vpc' = "raised"
    /\ UNCHANGED <<csvVars, vcan, vselected>>
    /\ UNCHANGED notView

\* TargetExportView.render_to_response
RenderToResponse ==
    /\ vpc = "request"
    /\ ~SelectedIdsRaises(vselected)
    /\ LET ids == ExportQueryset(db, vcan, vselected)
       IN \E keyOrder \in Orders(ExportedExtraKeys(db, ids)), sourceOrder \in Orders(ExportedSources(db, ids)) :
             /\ csvfile' = ExportTargets(db, ids, keyOrder, sourceOrder)
             /\ exported' = ids
    /\ vpc' = "responded"
    /\ UNCHANGED <<cpc, db, extraDefaults, installed, idb, iindex, itargets, ierrors, ilog, vcan, vselected>>
    /\ UNCHANGED notView

\* the column of the header that holds the target's name
NameColumnIndex(header) == CHOOSE i \in 1..Len(header) : header[i] = "name"

\* the targets the claim expects in the CSV: those whose id is the number a
\* token of decimal digits writes
C11_Selected ==
    {t \in db.targets :
        \E i \in 1..Len(vselected) :
            vselected[i] \in DOMAIN DigitTokens /\ DigitTokens[vselected[i]] = t.id}

\* C11: every request of the export view is answered with a CSV whose rows
\* are exactly the existing targets whose id appears as an all-digit token of
\* selected_targets, one row each; other tokens are ignored and a selection
\* without such a token yields the header and no rows.
C11_ExactlySelected ==
    vpc \in {"responded", "raised"} =>
        /\ vpc = "responded"
        /\ ~csvfile.raised
        /\ Len(csvfile.rows) = Cardinality(C11_Selected)
        /\ {csvfile.rows[i][NameColumnIndex(csvfile.header)] : i \in 1..Len(csvfile.rows)}
              = {t.name : t \in C11_Selected}

\* C10: the CSV of the export view holds a row only for targets the
\* requesting user has view_target on, whatever ids selected_targets names.
C10_OnlyPermittedExported ==
    vpc = "responded" =>
        \A i \in 1..Len(csvfile.rows) :
            \E t \in PermittedQueryset(db, vcan) :
                csvfile.rows[i][NameColumnIndex(csvfile.header)] = t.name

(***************************************************************************)
(* UserUpdateView                                                          *)
(***************************************************************************)
\* request.user of a visitor who is not logged in: AnonymousUser, whose id
\* is None and whose is_superuser is False
Anonymous == 0

\* request.user.is_superuser
IsSuperuser(u) == u # Anonymous /\ users[u].is_superuser

\* the condition of dispatch: a non-superuser asks for another user's pk
MutNotOwnProfile(u, pk) == FALSE
NotOwnProfile(u, pk) == ~IsSuperuser(u) /\ u # pk

UserIdle ==
    /\ upc = "idle" /\ users = <<>> /\ uresponse = [kind |-> "none", to |-> 0]
    /\ urequest = [user |-> Anonymous, pk |-> 0, method |-> "GET", valid |-> FALSE]

\* a request to /users/<pk>/update/ by a logged-in user or an anonymous
\* visitor; every profile starts as "old" and a valid form submits "new"
UserInit ==
    /\ upc = "request"
    /\ \E n \in 1..MaxUsers :
          /\ users \in [1..n -> [is_superuser : BOOLEAN, profile : {"old"}]]
          /\ urequest \in [user : {Anonymous} \cup 1..n, pk : 1..(n + 1),
                             method : {"GET", "POST"}, valid : BOOLEAN]
    /\ uresponse = [kind |-> "none", to |-> 0]

\* dispatch, first branch, for a logged-in requester:
\* redirect('user-update', self.request.user.id)
DispatchRedirectsOwn ==
    /\ upc = "request"
    /\ NotOwnProfile(urequest.user, urequest.pk)
    /\ urequest.user # Anonymous
    /\ uresponse' = [kind |-> "redirect-user-update", to |-> urequest.user]
    /\ upc' = "responded"
    /\ UNCHANGED <<users, urequest>>
    /\ UNCHANGED notUser

\* dispatch, first branch, for an anonymous visitor: request.user.id is
\* None, and reversing 'user-update' with None raises NoReverseMatch
DispatchRedirectRaises ==
    /\ upc = "request"
    /\ NotOwnProfile(urequest.user, urequest.pk)
    /\ urequest.user = Anonymous
    /\ uresponse' = [kind |-> "NoReverseMatch", to |-> 0]
    /\ upc' = "responded"
    /\ UNCHANGED <<users, urequest>>
    /\ UNCHANGED notUser

\* dispatch, second branch, when get_object finds no user with the pk: 404
DispatchNotFound ==
    /\ upc = "request"
    /\ ~NotOwnProfile(urequest.user, urequest.pk)
    /\ urequest.pk \notin DOMAIN users
    /\ uresponse' = [kind |-> "404", to |-> 0]
    /\ upc' = "responded"
    /\ UNCHANGED <<users, urequest>>
    /\ UNCHANGED notUser

\* dispatch, second branch, GET or a POST whose form is invalid: the form
\* is rendered and nothing is saved
DispatchShowsForm ==
    /\ upc = "request"
    /\ ~NotOwnProfile(urequest.user, urequest.pk)
    /\ urequest.pk \in DOMAIN users
    /\ urequest.method = "GET" \/ ~urequest.valid
    /\ uresponse' = [kind |-> "form", to |-> urequest.pk]
    /\ upc' = "responded"
    /\ UNCHANGED <<users, urequest>>
    /\ UNCHANGED notUser

\* dispatch, second branch, POST of a valid form: form_valid saves the
\* addressed user and redirects to get_success_url()
DispatchUpdates ==
    /\ upc = "request"
    /\ ~NotOwnProfile(urequest.user, urequest.pk)
    /\ urequest.pk \in DOMAIN users
    /\ urequest.method = "POST" /\ urequest.valid
    /\ users' = [users EXCEPT ![urequest.pk].profile = "new"]
    /\ uresponse' = IF IsSuperuser(urequest.user)
                       THEN [kind |-> "redirect-user-list", to |-> 0]
                       ELSE [kind |-> "redirect-user-update", to |-> urequest.user]
    /\ upc' = "responded"
    /\ UNCHANGED urequest
    /\ UNCHANGED notUser

\* a non-superuser, logged in or not, asks for the pk of another user
C12_OtherUsersProfile ==
    /\ upc = "responded"
    /\ ~IsSuperuser(urequest.user)
    /\ urequest.user # urequest.pk

CommentIdle ==
    /\ dpc = "idle" /\ comments = <<>> /\ dresponse = "none"
    /\ drequest = [user |-> Anonymous, is_superuser |-> FALSE, pk |-> 0, method |-> "GET"]

\* a request to the delete view of comment pk
CommentInit ==
    /\ dpc = "request"
    /\ \E n \in 1..MaxComments :
          /\ comments \in [1..n -> 1..MaxUsers]
          /\ drequest \in [user : {Anonymous} \cup 1..MaxUsers, is_superuser : BOOLEAN,
                             pk : 1..(n + 1), method : {"GET", "POST", "DELETE"}]
    /\ drequest.user = Anonymous => ~drequest.is_superuser
    /\ dresponse = "none"

\* the table after comment pk is deleted
WithoutComment(pk) == [c \in DOMAIN comments \ {pk} |-> comments[c]]

\* request.user == self.get_object().user or request.user.is_superuser
MayDelete(req) == req.user = comments[req.pk] \/ req.is_superuser

\* LoginRequiredMixin.dispatch: an anonymous visitor is sent to the login page
CommentLoginRequired ==
    /\ dpc = "request"
    /\ drequest.user = Anonymous
    /\ dresponse' = "redirect-login"
    /\ dpc' = "responded"
    /\ UNCHANGED <<comments, drequest>>
    /\ UNCHANGED notComment

\* get_object finds no comment with the pk: 404, whatever the method
CommentNotFound ==
    /\ dpc = "request"
    /\ drequest.user # Anonymous
    /\ drequest.pk \notin DOMAIN comments
    /\ dresponse' = "404"
    /\ dpc' = "responded"
    /\ UNCHANGED <<comments, drequest>>
    /\ UNCHANGED notComment

\* GET: the confirmation page
CommentConfirm ==
    /\ dpc = "request"
    /\ drequest.user # Anonymous
    /\ drequest.pk \in DOMAIN comments
    /\ drequest.method = "GET"
    /\ dresponse' = "confirm"
    /\ dpc' = "responded"
    /\ UNCHANGED <<comments, drequest>>
    /\ UNCHANGED notComment

\* POST: DeleteView.post -> form_valid deletes the comment and redirects to
\* get_success_url(); the view's delete() is not called
CommentPost ==
    /\ dpc = "request"
    /\ drequest.user # Anonymous
    /\ drequest.pk \in DOMAIN comments
    /\ drequest.method = "POST"
    /\ comments' = WithoutComment(drequest.pk)
    /\ dresponse' = "redirect-target-detail"
    /\ dpc' = "responded"
    /\ UNCHANGED drequest
    /\ UNCHANGED notComment

\* DELETE: the view's delete(), first branch: super().delete() deletes the
\* comment and redirects to get_success_url()
CommentDelete ==
    /\ dpc = "request"
    /\ drequest.user # Anonymous
    /\ drequest.pk \in DOMAIN comments
    /\ drequest.method = "DELETE"
    /\ MayDelete(drequest)
    /\ comments' = WithoutComment(drequest.pk)
    /\ dresponse' = "redirect-target-detail"
    /\ dpc' = "responded"
    /\ UNCHANGED drequest
    /\ UNCHANGED notComment

\* DELETE: the view's delete(), second branch:
\* HttpResponseForbidden('Not authorized')
CommentForbidden ==
    /\ dpc = "request"
    /\ drequest.user # Anonymous
    /\ drequest.pk \in DOMAIN comments
    /\ drequest.method = "DELETE"
    /\ ~MayDelete(drequest)
    /\ dresponse' = "403"
    /\ dpc' = "responded"
    /\ UNCHANGED <<comments, drequest>>
    /\ UNCHANGED notComment

\* C13: a comment is deleted only when the requester is its author or a
\* superuser; any other requester gets 403 and the comment still exists.
C13_OnlyAuthorDeletes ==
    [][dpc = "request" /\ drequest.pk \in DOMAIN comments
         /\ drequest.user # Anonymous /\ drequest.method \in {"POST", "DELETE"}
         /\ ~MayDelete(drequest)
         => dresponse' = "403" /\ comments' = comments]_vars

(***************************************************************************)
(* TargetCreateView.form_valid, TargetUpdateView.form_valid and            *)
(* Target.save. The helpers get_nonempty_names_from_queryset,              *)
(* check_duplicate_source_names and check_for_existing_alias are imported  *)
(* from another package; they are modelled by what their callers do with   *)
(* their results.                                                          *)
(***************************************************************************)
\* the url of a TargetName created without one
NullUrl == "NULL"

\* the tables behind the forms: up to MaxFormTargets targets, each with the
\* extra k1 and with or without the alias of source GAIA
FormDbs ==
    UNION {
        {[targets |-> {[id |-> i, name |-> TargetNameOf(i)] : i \in 1..n},
          extras |-> [target : 1..n, key : {"k1"}, value : {"v"}], names |-> N] :
            N \in SUBSET [target : 1..n, source_name : {"GAIA"}, name : {"a"}, url : {""}]}
        : n \in 1..MaxFormTargets}

\* get_nonempty_names_from_queryset(names.data): the aliases submitted with a
\* non-empty name, in the order of the formset
SubmittedAliases ==
    { [source_name |-> "GAIA", name |-> "a", url |-> ""],
      [source_name |-> "GAIA", name |-> "b", url |-> "u"],
      [source_name |-> "ZTF", name |-> "a", url |-> ""] }

\* the width of the tuples get_nonempty_names_from_queryset returns: its
\* callers unpack two values (views.py:235, 329) and three (views.py:318,
\* admin.py:32)
TupleWidths == {2, 3}

\* check_duplicate_source_names(target_names): two aliases share a source
DuplicateNames(aliases) ==
    \E i, j \in 1..Len(aliases) : i # j /\ aliases[i].source_name = aliases[j].source_name

\* check_for_existing_alias(target_names): true when a submitted alias is
\* held by another target, false when no target holds it, and either when
\* only the target addressed holds it
ExistingOutcomes(d, pk, aliases) ==
    LET held(a) == {n.target : n \in {x \in d.names : x.source_name = a.source_name /\ x.name = a.name}}
        holders == UNION {held(aliases[i]) : i \in 1..Len(aliases)}
    IN IF holders \ {pk} # {} THEN {TRUE}
       ELSE IF holders = {} THEN {FALSE}
       ELSE BOOLEAN

\* the target name a valid form can submit besides the current one
UnusedName(d) == TargetNameOf(Cardinality(d.targets) + 1)

\* the calls: a POST to the create view, a POST to the update view of an
\* existing target (both with a valid main form), and a direct
\* Target.save(extras=...) of a new or an existing target
FormRequests(d) ==
    LET common == [extra_valid : BOOLEAN, names_valid : BOOLEAN,
                   extras : SUBSET [key : {"k1"}, value : {"w"}],
                   aliases : SeqsUpTo(SubmittedAliases, MaxAliases),
                   width : TupleWidths]
        with(c, kind, pk, name, existing, defaults) ==
            [kind |-> kind, pk |-> pk, name |-> name, extra_valid |-> c.extra_valid,
             names_valid |-> c.names_valid, extras |-> c.extras, aliases |-> c.aliases,
             width |-> c.width, existing_names |-> existing, defaults |-> defaults]
    IN {with(c, "create", 0, UnusedName(d), e, {}) :
            c \in common, e \in BOOLEAN}
       \cup {with(c, "update", t.id, nm, e, {}) :
            c \in common, t \in d.targets, nm \in {TargetNameOf(1), UnusedName(d)}, e \in BOOLEAN}
       \cup {with(c, "save", pk, nm, FALSE, defaults) :
            c \in {x \in common : x.extra_valid /\ x.names_valid /\ x.aliases = <<>> /\ x.width = 3},
            pk \in {0} \cup TargetIds(d), nm \in {TargetNameOf(1), UnusedName(d)},
            defaults \in ExtraFieldSettings}

\* a request the views can get: the main form is valid, so the name is not
\* the name of another target, and check_for_existing_alias answers as the
\* tables say
FormRequestOk(d, req) ==
    /\ req.kind # "save" =>
          /\ ~\E t \in d.targets : t.name = req.name /\ t.id # req.pk
          /\ req.existing_names \in ExistingOutcomes(d, req.pk, req.aliases)

FormIdle ==
    /\ tpc = "idle" /\ tdb = EmptyDb /\ tresponse = "none" /\ thooks = <<>>
    /\ trequest = [kind |-> "none"]

FormInit ==
    /\ tpc = "request"
    /\ tdb \in FormDbs
    /\ trequest \in {r \in FormRequests(tdb) : FormRequestOk(tdb, r)}
    /\ tresponse = "none"
    /\ thooks = <<>>

\* extra.is_valid() and names.is_valid() and not duplicate_names and not
\* existing_names
MutFormsAcceptable(req) ==
    req.extra_valid /\ req.names_valid /\ ~DuplicateNames(req.aliases)
FormsAcceptable(req) ==
    req.extra_valid /\ req.names_valid /\ ~DuplicateNames(req.aliases) /\ ~req.existing_names

\* Target.save(extras=...) raises IntegrityError: the name is another
\* target's (unique=True)
TargetSaveRaises(d, pk, name) == \E t \in d.targets : t.name = name /\ t.id # pk

\* Target.save(extras=...): the row is inserted or updated, a new target gets
\* a TargetExtra for every settings.EXTRA_FIELDS entry with a default, and
\* the extras given are created or overwritten; no hook is run
TargetSave(d, pk, name, extras, defaults) ==
    LET id == IF pk = 0 THEN NextId(d) ELSE pk
        saved == {t \in d.targets : t.id # id} \cup {[id |-> id, name |-> name]}
        withDefaults ==
            IF pk = 0
               THEN d.extras \cup {[target |-> id, key |-> x.name, value |-> x.default] : x \in defaults}
               ELSE d.extras
        keys == {e.key : e \in extras}
        withExtras ==
            {e \in withDefaults : ~(e.target = id /\ e.key \in keys)}
                \cup {[target |-> id, key |-> e.key, value |-> e.value] : e \in extras}
    IN [db |-> [d EXCEPT !.targets = saved, !.extras = withExtras], id |-> id, hooks |-> <<>>]

\* extra.save(): the TargetExtra rows of the target become those of the formset
SaveExtraFormset(d, id, extras) ==
    [d EXCEPT !.extras = {e \in @ : e.target # id}
                            \cup {[target |-> id, key |-> e.key, value |-> e.value] : e \in extras}]

\* the hook call run_hook('target_post_save', target=..., created=...), with
\* the tables as the hook finds them
HookCall(d, id, created) ==
    [hook |-> "target_post_save", target |-> id, created |-> created, seen |-> d]

RECURSIVE CreateAliases(_, _, _)
\* TargetCreateView.form_valid, the loop over target_names:
\* TargetName.objects.create(target, source_name), then the name is saved
CreateAliases(d, id, aliases) ==
    IF aliases = <<>> THEN d
    ELSE CreateAliases(
            [d EXCEPT !.names = @ \cup {[target |-> id, source_name |-> Head(aliases).source_name,
                                         name |-> Head(aliases).name, url |-> NullUrl]}],
            id, Tail(aliases))

\* TargetCreateView.form_valid past the check: the tables, the response and
\* the hooks run. The Target and its extras are committed before the loop
\* over target_names unpacks the first tuple.
CreateWrites(d, req) ==
    LET saved == TargetSave(d, 0, req.name, {}, req.defaults)
        withExtras == SaveExtraFormset(saved.db, saved.id, req.extras)
    IN IF req.aliases # <<>> /\ req.width # 2
          THEN [db |-> withExtras, response |-> "ValueError", hooks |-> saved.hooks]
          ELSE LET done == CreateAliases(withExtras, saved.id, req.aliases)
               IN [db |-> done, response |-> "redirect",
                   hooks |-> Append(saved.hooks, HookCall(done, saved.id, TRUE))]

RECURSIVE UpdateAliases(_, _, _)
\* TargetUpdateView.form_valid, the loop over target_names:
\* get_or_create(target, source_name, url), then the name is saved; a row of
\* the same source with another url makes the create raise IntegrityError
UpdateAliases(d, id, aliases) ==
    IF aliases = <<>> THEN [db |-> d, ok |-> TRUE]
    ELSE LET a == Head(aliases)
             same == {n \in d.names : n.target = id /\ n.source_name = a.source_name}
             found == {n \in same : n.url = a.url}
             row == [target |-> id, source_name |-> a.source_name, name |-> a.name, url |-> a.url]
         IN IF found = {} /\ same # {}
               THEN [db |-> d, ok |-> FALSE]
               ELSE UpdateAliases([d EXCEPT !.names = (@ \ found) \cup {row}], id, Tail(aliases))

\* TargetUpdateView.form_valid past the check, inside transaction.atomic:
\* what is committed, and the response. An exception rolls everything back.
UpdateWrites(d, req) ==
    LET withExtras == SaveExtraFormset(d, req.pk, req.extras)
        saved == TargetSave(withExtras, req.pk, req.name, {}, {})
        named == UpdateAliases(saved.db, req.pk, req.aliases)
        \* [s for s, _ in target_names]
        target_source_names == {req.aliases[i].source_name : i \in 1..Len(req.aliases)}
        kept == [named.db EXCEPT !.names =
                    {n \in @ : n.target # req.pk \/ n.source_name \in target_source_names}]
    IN IF req.aliases # <<>> /\ req.width # 3
          THEN [db |-> d, response |-> "ValueError", hooks |-> <<>>]
       ELSE IF ~named.ok
          THEN [db |-> d, response |-> "IntegrityError", hooks |-> <<>>]
       ELSE IF req.aliases # <<>> /\ req.width # 2
          THEN [db |-> d, response |-> "ValueError", hooks |-> <<>>]
       ELSE [db |-> kept, response |-> "redirect", hooks |-> saved.hooks]

\* either view, else branch: the errors are added and form_invalid is returned
FormInvalid ==
    /\ tpc = "request"
    /\ trequest.kind \in {"create", "update"}
    /\ ~FormsAcceptable(trequest)
    /\ tresponse' = "form_invalid"
    /\ tpc' = "responded"
    /\ UNCHANGED <<tdb, trequest, thooks>>
    /\ UNCHANGED notForm

\* TargetCreateView.form_valid, if branch
CreateFormValid ==
    /\ tpc = "request"
    /\ trequest.kind = "create"
    /\ FormsAcceptable(trequest)
    /\ \E w \in {CreateWrites(tdb, trequest)} :
          /\ tdb' = w.db
          /\ tresponse' = w.response
          /\ thooks' = thooks \o w.hooks
    /\ tpc' = "responded"
    /\ UNCHANGED trequest
    /\ UNCHANGED notForm

\* TargetUpdateView.form_valid, if branch
UpdateFormValid ==
    /\ tpc = "request"
    /\ trequest.kind = "update"
    /\ FormsAcceptable(trequest)
    /\ \E w \in {UpdateWrites(tdb, trequest)} :
          /\ tdb' = w.db
          /\ tresponse' = w.response
          /\ thooks' = thooks \o w.hooks
    /\ tpc' = "responded"
    /\ UNCHANGED trequest
    /\ UNCHANGED notForm

\* a direct Target.save(extras=...)
SaveTarget ==
    /\ tpc = "request"
    /\ trequest.kind = "save"
    /\ IF TargetSaveRaises(tdb, trequest.pk, trequest.name)
          THEN /\ tresponse' = "IntegrityError"
               /\ UNCHANGED <<tdb, thooks>>
          ELSE \E w \in {TargetSave(tdb, trequest.pk, trequest.name, trequest.extras, trequest.defaults)} :
                  /\ tdb' = w.db
                  /\ thooks' = thooks \o w.hooks
                  /\ tresponse' = "saved"
    /\ tpc' = "responded"
    /\ UNCHANGED trequest
    /\ UNCHANGED notForm

\* the condition the claims call invalid input: a formset is invalid, two
\* submitted aliases share a source name, or a submitted alias already exists
InvalidInput(req) ==
    \/ ~req.extra_valid
    \/ ~req.names_valid
    \/ \E i, j \in 1..Len(req.aliases) : i # j /\ req.aliases[i].source_name = req.aliases[j].source_name
    \/ req.existing_names

\* C14: TargetUpdateView.form_valid on invalid input persists no change to
\* the Target, its TargetExtra rows or its TargetName rows and returns the
\* form as invalid.
C14_InvalidUpdateChangesNothing ==
    [][tpc = "request" /\ trequest.kind = "update" /\ InvalidInput(trequest)
         => tdb' = tdb /\ tresponse' = "form_invalid"]_vars

\* an update whose two aliases share a source and whose name and extras
\* differ from the stored ones was answered as invalid
C14_Witness ==
    /\ tpc = "responded" /\ trequest.kind = "update"
    /\ tresponse = "form_invalid"
    /\ trequest.extra_valid /\ trequest.names_valid
    /\ Len(trequest.aliases) = 2
    /\ trequest.aliases[1].source_name = trequest.aliases[2].source_name
    /\ trequest.extras # {}
    /\ \E t \in tdb.targets : t.id = trequest.pk /\ t.name # trequest.name

\* the (source name, alias name) pairs of a target
FormAliasPairs(d, id) == {<<n.source_name, n.name>> : n \in {x \in d.names : x.target = id}}

\* C15: after TargetUpdateView.form_valid with valid forms the update has
\* completed and the target's TargetName rows are exactly the submitted
\* non-empty aliases, one row per submitted source.
C15_AliasesAsSubmitted ==
    tpc = "responded" /\ trequest.kind = "update" /\ ~InvalidInput(trequest) =>
        /\ tresponse = "redirect"
        /\ FormAliasPairs(tdb, trequest.pk)
              = {<<trequest.aliases[i].source_name, trequest.aliases[i].name>> :
                    i \in 1..Len(trequest.aliases)}

\* C16: TargetCreateView.form_valid runs target_post_save exactly once per
\* created target, with created=True and with the Target, the submitted
\* extras and the submitted aliases already persisted; on invalid input no
\* Target is created and no hook is run.
C16_HookOncePerCreatedTarget ==
    tpc = "responded" /\ trequest.kind = "create" =>
        LET created == {t \in tdb.targets : t.name = trequest.name}
        IN IF InvalidInput(trequest)
              THEN created = {} /\ thooks = <<>>
              ELSE /\ Cardinality(created) = 1
                   /\ Len(thooks) = 1
                   /\ \A t \in created :
                         /\ thooks[1].hook = "target_post_save"
                         /\ thooks[1].target = t.id
                         /\ thooks[1].created
                         /\ t \in thooks[1].seen.targets
                         /\ \A e \in trequest.extras :
                               [target |-> t.id, key |-> e.key, value |-> e.value]
                                   \in thooks[1].seen.extras
                         /\ FormAliasPairs(thooks[1].seen, t.id)
                               = {<<trequest.aliases[i].source_name, trequest.aliases[i].name>> :
                                     i \in 1..Len(trequest.aliases)}

\* C17: after Target.save has saved the target it has run the
\* target_post_save hook for it.
C17_SaveRunsHook ==
    tpc = "responded" /\ trequest.kind = "save" /\ tresponse = "saved" =>
        \E i \in 1..Len(thooks) :
            /\ thooks[i].hook = "target_post_save"
            /\ \E t \in tdb.targets : t.id = thooks[i].target /\ t.name = trequest.name

(***************************************************************************)
(* The specifications                                                      *)
(***************************************************************************)
\* one call of MARSBroker.fetch_alerts
Init == FetchInit /\ ReducedIdle /\ CsvIdle /\ ConeIdle /\ ViewIdle /\ UserIdle /\ CommentIdle /\ FormIdle
Next == FetchNext
Spec == Init /\ [][Next]_vars

\* one call of MARSBroker.process_reduced_data
InitReduced == ReducedInit /\ FetchIdle /\ CsvIdle /\ ConeIdle /\ ViewIdle /\ UserIdle /\ CommentIdle /\ FormIdle
NextReduced == ReducedNext
SpecReduced == InitReduced /\ [][NextReduced]_vars

\* export_targets on a database, then import_targets of the exported file
\* into an empty database
InitCsv == CsvInitOver(RoundTripDbs(MaxTargets), {{}}) /\ FetchIdle /\ ReducedIdle /\ ConeIdle /\ ViewIdle /\ UserIdle /\ CommentIdle /\ FormIdle
NextCsv == ExportCsv \/ StartImport \/ ImportRow \/ ImportReturn
SpecCsv == InitCsv /\ [][NextCsv]_vars

\* export_targets on a database
InitExport == CsvInitOver(ExportDbs(MaxTargets), {{}, ForeignRelations}) /\ FetchIdle /\ ReducedIdle /\ ConeIdle /\ ViewIdle /\ UserIdle /\ CommentIdle /\ FormIdle
NextExport == ExportCsv
SpecExport == InitExport /\ [][NextExport]_vars

\* import_targets of an uploaded file
InitUpload == UploadInit /\ FetchIdle /\ ReducedIdle /\ ConeIdle /\ ViewIdle /\ UserIdle /\ CommentIdle /\ FormIdle
NextUpload == StartImport \/ ImportRow \/ ImportReturn
SpecUpload == InitUpload /\ [][NextUpload]_vars

\* one call of cone_search_filter
InitCone == ConeInit /\ FetchIdle /\ ReducedIdle /\ CsvIdle /\ ViewIdle /\ UserIdle /\ CommentIdle /\ FormIdle
NextCone == ConeSearch
SpecCone == InitCone /\ [][NextCone]_vars

\* one GET of TargetExportView
InitView == ViewInit /\ FetchIdle /\ ReducedIdle /\ ConeIdle /\ UserIdle /\ CommentIdle /\ FormIdle
NextView == RenderToResponse \/ RenderRaises
SpecView == InitView /\ [][NextView]_vars

\* one request to UserUpdateView
InitUser == UserInit /\ FetchIdle /\ ReducedIdle /\ CsvIdle /\ ConeIdle /\ ViewIdle /\ CommentIdle /\ FormIdle
NextUser ==
    \/ DispatchRedirectsOwn
    \/ DispatchRedirectRaises
    \/ DispatchNotFound
    \/ DispatchShowsForm
    \/ DispatchUpdates
SpecUser == InitUser /\ [][NextUser]_vars

\* one request to CommentDeleteView
InitComment ==
    CommentInit /\ FetchIdle /\ ReducedIdle /\ CsvIdle /\ ConeIdle /\ ViewIdle /\ UserIdle /\ FormIdle
NextComment ==
    \/ CommentLoginRequired
    \/ CommentNotFound
    \/ CommentConfirm
    \/ CommentPost
    \/ CommentDelete
    \/ CommentForbidden
SpecComment == InitComment /\ [][NextComment]_vars

\* one call of TargetCreateView.form_valid, TargetUpdateView.form_valid or
\* Target.save
InitForm ==
    FormInit /\ FetchIdle /\ ReducedIdle /\ CsvIdle /\ ConeIdle /\ ViewIdle /\ UserIdle /\ CommentIdle
NextForm == FormInvalid \/ CreateFormValid \/ UpdateFormValid \/ SaveTarget
SpecForm == InitForm /\ [][NextForm]_vars

====
